---- MODULE Spec2Model ----
(***************************************************************************)
(* Model of the task orchestration engine of load_test_tool:               *)
(*   factory.rs   create_request_builder, create_monitor_tasks,            *)
(*                start_monitoring                                         *)
(*   tasks.rs     Task::execute, Task::get_task_order, update_app_state    *)
(*   appstate.rs  AppState (the two result tables behind nested mutexes)   *)
(*   main.rs      main (initial run), trigger_monitoring, get_task_data,   *)
(*                get_load_test_data                                       *)
(*   config.rs    ApiConfig, LoadTestConfig, load_config,                  *)
(*                validate_settings                                        *)
(*   utils/interpolate.rs  interpolate_string, interpolate_config          *)
(* loadtest.rs and utils/http_client.rs are not part of the sources; the   *)
(* Load-Test Task is modelled from the design document, at the level of    *)
(* "runs, then writes one Load-Test Result".                               *)
(***************************************************************************)
EXTENDS Integers, Sequences, FiniteSets, TLC

(***************************************************************************)
(* Bounds                                                                  *)
(***************************************************************************)
\* number of runs of start_monitoring: the initial one of main plus triggers
MaxRuns == 2
\* number of endpoints in cfg.apis
MaxApis == 2

\* usize::MAX, scaled to the integer width of the checker
USIZE_MAX == 2147483647

\* Option::None of an Option<usize> / Option<u16>
None == -1

(***************************************************************************)
(* config.rs: ApiConfig.  name, expected_field, response_time_threshold    *)
(* and the inline body do not influence control flow and are left out;     *)
(* headers is reduced to whether every (name, value) pair parses;          *)
(* body_file to absent / readable / unreadable.  load_test_config, an      *)
(* Option<LoadTestConfig>, is the empty set (None) or the set of one       *)
(* profile (Some).                                                         *)
(***************************************************************************)
HttpMethod == {"GET", "POST", "PUT", "DELETE"}

\* config.rs LoadTestConfig; every field an Option<usize>, None when absent
LoadTestConfig(initial_load, max_load, spawn_rate, retry_count, max_duration_secs) ==
    [initial_load |-> initial_load, max_load |-> max_load,
     spawn_rate |-> spawn_rate, retry_count |-> retry_count,
     max_duration_secs |-> max_duration_secs]

\* impl Default for LoadTestConfig
LoadTestConfig_default == LoadTestConfig(1, 10, 1, 0, 60)

\* load_test_config: None
NoProfile == {}

ApiConfig(order, url, method, headers, body_file, load_test, load_test_config) ==
    [task_order |-> order, url |-> url, method |-> method, headers |-> headers,
     body_file |-> body_file, load_test |-> load_test,
     load_test_config |-> load_test_config]

\* The endpoint descriptors configurations are built from.
ApiConfigs ==
    { ApiConfig(1,    "u1", "GET",  "valid",   "absent",     FALSE, NoProfile),
      ApiConfig(1,    "u2", "POST", "valid",   "unreadable", FALSE, NoProfile),
      ApiConfig(2,    "u1", "PUT",  "invalid", "absent",     FALSE, NoProfile),
      ApiConfig(None, "u2", "GET",  "valid",   "readable",   FALSE, NoProfile),
      ApiConfig(1,    "u1", "POST", "valid",   "absent",     TRUE,  NoProfile) }

\* Settings.apis: every list of 1..MaxApis descriptors
Settings == UNION { [1..n -> ApiConfigs] : n \in 1..MaxApis }

\* validation that checks the URLs and substitutes nothing
validate_settings_without_defaults(apis) ==
    IF \E i \in DOMAIN apis : apis[i].url = ""
    THEN [ok |-> FALSE, apis |-> apis]
    ELSE [ok |-> TRUE, apis |-> apis]

\* config.rs validate_settings: Err at an empty URL (the settings are then
\* dropped by load_config); a load test without a profile gets the default
validate_settings(apis) ==
    IF \E i \in DOMAIN apis : apis[i].url = ""
    THEN [ok |-> FALSE, apis |-> apis]
    ELSE [ok |-> TRUE,
          apis |-> [i \in DOMAIN apis |->
                      IF apis[i].load_test /\ apis[i].load_test_config = NoProfile
                      THEN [apis[i] EXCEPT !.load_test_config = {LoadTestConfig_default}]
                      ELSE apis[i]]]

\* the values of the environment variable the configuration files refer to:
\* not set, set to the empty string, set to a URL
EnvValues == {"unset", "", "u1"}

\* interpolate.rs interpolate_string on a url: a ${VAR} placeholder is
\* replaced by the variable's value, and left as it is when VAR is not set
interpolate_string(input, env) ==
    IF input = "${VAR}" /\ env # "unset" THEN env ELSE input

\* interpolate.rs interpolate_config, on the urls (body and header values
\* are interpolated too; the model keeps them as parsed / not parsed)
interpolate_config(apis, env) ==
    [i \in DOMAIN apis |-> [apis[i] EXCEPT !.url = interpolate_string(@, env)]]

\* config.rs load_config, from the deserialized settings on: validate, then
\* interpolate
load_config(apis, env) ==
    LET validated == validate_settings(apis)
    IN IF validated.ok
       THEN [ok |-> TRUE, apis |-> interpolate_config(validated.apis, env)]
       ELSE [ok |-> FALSE, apis |-> apis]

(***************************************************************************)
(* tasks.rs: MonitoringData and the outcome of one HTTP exchange           *)
(***************************************************************************)
\* status codes a server may answer with (reqwest StatusCode::as_u16)
StatusCodes == {200, 500}

\* what request_builder.send().await resolves to: Ok(resp) with a status
\* code, or Err(e) (DNS, connect, timeout, TLS ...)
Responses ==
    { [transport |-> "Ok", code |-> c] : c \in StatusCodes }
        \cup { [transport |-> "Err", code |-> None] }

\* start.elapsed().as_millis(): the measured duration, as an abstract value
Durations == {50}

MonitoringData(status, response_time, status_code, method) ==
    [status |-> status, response_time |-> response_time,
     status_code |-> status_code, method |-> method]

\* loadtest.rs LoadTestMonitoringData: the aggregate of one load test
LoadTestMonitoringData == [kind |-> "LoadTestResult"]

NoData == [kind |-> "none"]

\* a success test that forgets the upper end of the range
is_success_no_upper_bound(code) == 200 <= code

\* reqwest StatusCode::is_success: 200..=299
is_success(code) == 200 <= code /\ code <= 299

(***************************************************************************)
(* factory.rs create_request_builder: Err on the first header that does    *)
(* not parse, then Err when the body file cannot be read, else the request *)
(***************************************************************************)
create_request_builder(api_config) ==
    IF api_config.headers = "invalid" THEN [ok |-> FALSE, err |-> "Invalid header"]
    ELSE IF api_config.body_file = "unreadable"
         THEN [ok |-> FALSE, err |-> "Error reading request body from file"]
    ELSE [ok |-> TRUE, err |-> ""]

\* tasks.rs Task::get_task_order: task_order.unwrap_or(usize::MAX)
get_task_order(api_config) ==
    IF api_config.task_order = None THEN USIZE_MAX ELSE api_config.task_order

\* loadtest.rs LoadTest::get_task_order
LoadTest_get_task_order(api_config) ==
    IF api_config.task_order = None THEN USIZE_MAX ELSE api_config.task_order

(***************************************************************************)
(* factory.rs create_monitor_tasks: one pass over cfg.apis, pushing a      *)
(* LoadTest when load_test is set and a profile is present, nothing when   *)
(* load_test is set and the profile is absent, a Task otherwise            *)
(***************************************************************************)
NewTask(kind, i) ==
    [kind |-> kind, api |-> i, pc |-> "pending", monitoring_data |-> NoData,
     ret |-> "none"]

\* a factory that builds the health checks and leaves the load tests out
create_monitor_tasks_health_checks_only(apis) ==
    SelectSeq([i \in 1..Len(apis) |-> NewTask("Task", i)],
              LAMBDA t : ~apis[t.api].load_test)

create_monitor_tasks(apis) ==
    LET all == [i \in 1..Len(apis) |->
                   NewTask(IF apis[i].load_test THEN "LoadTest" ELSE "Task", i)]
        pushed(t) == IF apis[t.api].load_test
                     THEN apis[t.api].load_test_config # NoProfile
                     ELSE TRUE
    IN SelectSeq(all, pushed)

\* the order key start_monitoring reads from a built task
task_order_of(apis, t) ==
    IF t.kind = "LoadTest" THEN LoadTest_get_task_order(apis[t.api])
    ELSE get_task_order(apis[t.api])

\* insert(order, vec![task]) instead of entry(order).or_insert_with(..).push:
\* a group holds the last task of its key only
grouped_tasks_keeping_last(apis, ts) ==
    [k \in { task_order_of(apis, ts[p]) : p \in DOMAIN ts } |->
        { p \in DOMAIN ts :
            /\ task_order_of(apis, ts[p]) = k
            /\ \A q \in DOMAIN ts : task_order_of(apis, ts[q]) = k => q <= p }]

\* factory.rs start_monitoring: grouped_tasks, as key -> task positions
grouped_tasks(apis, ts) ==
    [k \in { task_order_of(apis, ts[p]) : p \in DOMAIN ts } |->
        { p \in DOMAIN ts : task_order_of(apis, ts[p]) = k }]

RECURSIVE sort(_)
\* order_keys.sort(): ascending
sort(keys) ==
    IF keys = {} THEN << >>
    ELSE LET m == CHOOSE x \in keys : \A y \in keys : x <= y
         IN << m >> \o sort(keys \ {m})

RECURSIVE sort_descending(_)
sort_descending(keys) ==
    IF keys = {} THEN << >>
    ELSE LET m == CHOOSE x \in keys : \A y \in keys : x >= y
         IN << m >> \o sort_descending(keys \ {m})

\* the keys in an order HashMap::keys may yield when the sort is left out
order_keys_unsorted(apis, ts) == sort_descending(DOMAIN grouped_tasks(apis, ts))

\* factory.rs start_monitoring: the sorted group keys
order_keys(apis, ts) == sort(DOMAIN grouped_tasks(apis, ts))

\* the table replaced by the one new entry
insert_clearing(table, key, value) ==
    { [key |-> key, value |-> value] }

\* Vec::push instead of an overwrite: earlier results of the key are kept
insert_appending(table, key, value) ==
    table \cup { [key |-> key, value |-> value] }

\* entry(key).or_insert(value): the first result of a key is kept
insert_keeping_first(table, key, value) ==
    IF \E e \in table : e.key = key THEN table
    ELSE table \cup { [key |-> key, value |-> value] }

(***************************************************************************)
(* HashMap::insert on a table kept as a set of (key, value) entries: the   *)
(* entry of the key, if any, is replaced                                   *)
(***************************************************************************)
insert(table, key, value) ==
    { e \in table : e.key # key } \cup { [key |-> key, value |-> value] }

keys_of(table) == { e.key : e \in table }

(***************************************************************************)
(* State                                                                   *)
(***************************************************************************)
VARIABLES
    process,    \* main: position of the process, and its environment
    cfg,        \* Arc<Settings>: cfg.apis after load_config
    runs,       \* per run of start_monitoring: pc and the group keys left
    tasks,      \* per run: the tasks built by create_monitor_tasks
    app_state,  \* AppState: task_monitoring_data, load_test_monitoring_data
    locks,      \* holder of the AppState mutex and of each table's mutex
    handlers,   \* position of the get_task_data / get_load_test_data handlers
    generator   \* the Progressive Load Generator of one Load-Test Task

vars == << process, cfg, runs, tasks, app_state, locks, handlers, generator >>

Runs == 1..MaxRuns

\* lock holders: << run, task position >> or << 0, handler >>
Free == << 0, 0 >>
Handlers == {1, 2}
HandlerTable(h) ==
    IF h = 1 THEN "task_monitoring_data" ELSE "load_test_monitoring_data"

\* no load generator is followed step by step: a Load-Test Task is then the
\* pair LoadTest_execute, LoadTest_finish
NoGenerator == [pc |-> "none"]

\* the process once main has loaded its configuration and serves requests
Serving == [pc |-> "serving", env |-> "unset"]

Init ==
    /\ process = Serving
    /\ cfg \in { load_config(apis, Serving.env).apis :
                    apis \in { a \in Settings : load_config(a, Serving.env).ok } }
    \* main.rs: both tables start empty; the initial run is spawned
    /\ app_state = [task_monitoring_data |-> {}, load_test_monitoring_data |-> {}]
    /\ runs = [r \in Runs |->
                 [pc |-> IF r = 1 THEN "spawned" ELSE "idle", order_keys |-> << >>]]
    /\ tasks = [r \in Runs |-> << >>]
    /\ locks = [app_state |-> Free, task_monitoring_data |-> Free,
                load_test_monitoring_data |-> Free]
    /\ handlers = [h \in Handlers |-> "idle"]
    /\ generator = NoGenerator

(***************************************************************************)
(* Helpers over the state                                                  *)
(***************************************************************************)
\* the members of the group start_monitoring is currently awaiting
CurrentGroup(r) ==
    IF runs[r].pc = "running" /\ runs[r].order_keys # << >>
    THEN grouped_tasks(cfg, tasks[r])[Head(runs[r].order_keys)]
    ELSE {}

SetTask(r, p, t) == tasks' = [tasks EXCEPT ![r][p] = t]

\* a write that selects the other table
update_app_state_other_table(state, api_url, data_type, monitoring_data) ==
    [state EXCEPT !.load_test_monitoring_data = @ \cup
                      { [key |-> api_url, value |-> monitoring_data] }]

\* tasks.rs update_app_state, the write: MonitoringDataType::Task selects
\* task_monitoring_data; the entry is inserted under api_url
update_app_state(state, api_url, data_type, monitoring_data) ==
    IF data_type = "Task"
    THEN [state EXCEPT !.task_monitoring_data = insert(@, api_url, monitoring_data)]
    ELSE state

\* loadtest.rs: the Load-Test Result goes to load_test_monitoring_data
LoadTest_update_app_state(state, api_url, monitoring_data) ==
    [state EXCEPT !.load_test_monitoring_data = insert(@, api_url, monitoring_data)]

\* the table a task's result goes to
TableOf(t) ==
    IF t.kind = "LoadTest" THEN "load_test_monitoring_data" ELSE "task_monitoring_data"

(***************************************************************************)
(* main.rs                                                                 *)
(***************************************************************************)
\* trigger_monitoring: tokio::spawn of a further run, returns at once
trigger_monitoring(r) ==
    /\ runs[r].pc = "idle"
    /\ \A q \in Runs : q < r => runs[q].pc # "idle"
    /\ runs' = [runs EXCEPT ![r].pc = "spawned"]
    /\ UNCHANGED << generator, process, cfg, tasks, app_state, locks, handlers >>

\* a reader that locks its table before the store
handler_lock_table_first(h) ==
    /\ handlers[h] = "idle"
    /\ locks[HandlerTable(h)] = Free
    /\ locks' = [locks EXCEPT ![HandlerTable(h)] = << 0, h >>]
    /\ handlers' = [handlers EXCEPT ![h] = "lock_table"]
    /\ UNCHANGED << generator, process, cfg, runs, tasks, app_state >>

\* get_task_data (h = 1) / get_load_test_data (h = 2): data.lock().await
handler_lock_app_state(h) ==
    /\ handlers[h] = "idle"
    /\ locks.app_state = Free
    /\ locks' = [locks EXCEPT !.app_state = << 0, h >>]
    /\ handlers' = [handlers EXCEPT ![h] = "lock_table"]
    /\ UNCHANGED << generator, process, cfg, runs, tasks, app_state >>

\* app_state.<table>.lock().await
handler_lock_table(h) ==
    /\ handlers[h] = "lock_table"
    /\ locks[HandlerTable(h)] = Free
    /\ locks' = [locks EXCEPT ![HandlerTable(h)] = << 0, h >>]
    /\ handlers' = [handlers EXCEPT ![h] = "respond"]
    /\ UNCHANGED << generator, process, cfg, runs, tasks, app_state >>

\* HttpResponse::Ok().json(..); both guards are dropped on return
handler_respond(h) ==
    /\ handlers[h] = "respond"
    /\ locks' = [locks EXCEPT ![HandlerTable(h)] = Free, !.app_state = Free]
    /\ handlers' = [handlers EXCEPT ![h] = "idle"]
    /\ UNCHANGED << generator, process, cfg, runs, tasks, app_state >>

(***************************************************************************)
(* factory.rs start_monitoring                                             *)
(***************************************************************************)
\* lines 87-114: client, create_monitor_tasks, grouping, sorted keys.
\* http_client::get_client (line 94) is outside the sources; the client is
\* taken to be built, so the expect() does not panic.
start_monitoring(r) ==
    /\ runs[r].pc = "spawned"
    /\ LET ts == create_monitor_tasks(cfg)
           keys == order_keys(cfg, ts)
       IN /\ tasks' = [tasks EXCEPT ![r] = ts]
          /\ runs' = [runs EXCEPT ![r] =
                        [pc |-> IF keys = << >> THEN "done" ELSE "running",
                         order_keys |-> keys]]
    /\ UNCHANGED << generator, process, cfg, app_state, locks, handlers >>

\* a loop that is left at the first group with a failed member
join_all_stopping_on_failure(r) ==
    /\ runs[r].pc = "running"
    /\ CurrentGroup(r) # {}
    /\ \A p \in CurrentGroup(r) : tasks[r][p].pc = "done"
    /\ tasks' = [tasks EXCEPT ![r] =
                   [p \in DOMAIN tasks[r] |->
                      IF p \in CurrentGroup(r)
                      THEN [tasks[r][p] EXCEPT !.pc = "joined", !.ret = "none"]
                      ELSE tasks[r][p]]]
    /\ LET failed == \E p \in CurrentGroup(r) : tasks[r][p].ret = "Err"
           rest == Tail(runs[r].order_keys)
       IN runs' = [runs EXCEPT ![r] =
                     [pc |-> IF failed \/ rest = << >> THEN "done" ELSE "running",
                      order_keys |-> IF failed THEN << >> ELSE rest]]
    /\ UNCHANGED << generator, process, cfg, app_state, locks, handlers >>

\* line 130: join_all(futures).await returns once every member of the group
\* has returned; the loop goes to the next key, or the run ends
join_all(r) ==
    /\ runs[r].pc = "running"
    /\ CurrentGroup(r) # {}
    /\ \A p \in CurrentGroup(r) : tasks[r][p].pc = "done"
    /\ tasks' = [tasks EXCEPT ![r] =
                   [p \in DOMAIN tasks[r] |->
                      IF p \in CurrentGroup(r)
                      THEN [tasks[r][p] EXCEPT !.pc = "joined", !.ret = "none"]
                      ELSE tasks[r][p]]]
    /\ runs' = [runs EXCEPT ![r] =
                  [pc |-> IF Tail(runs[r].order_keys) = << >> THEN "done" ELSE "running",
                   order_keys |-> Tail(runs[r].order_keys)]]
    /\ UNCHANGED << generator, process, cfg, app_state, locks, handlers >>

\* members started one at a time: a member waits for the siblings in flight
Task_execute_serialized(r, p) ==
    /\ p \in CurrentGroup(r)
    /\ tasks[r][p].kind = "Task"
    /\ tasks[r][p].pc = "pending"
    /\ \A q \in CurrentGroup(r) : tasks[r][q].pc \in {"pending", "done"}
    /\ IF create_request_builder(cfg[tasks[r][p].api]).ok
       THEN tasks' = [tasks EXCEPT ![r][p].pc = "sending"]
       ELSE tasks' = [tasks EXCEPT ![r][p].pc = "done", ![r][p].ret = "Err"]
    /\ UNCHANGED << generator, process, cfg, runs, app_state, locks, handlers >>

\* the store locked before the request is sent, the guard kept over send()
Task_execute_holding_lock(r, p) ==
    /\ p \in CurrentGroup(r)
    /\ tasks[r][p].kind = "Task"
    /\ tasks[r][p].pc = "pending"
    /\ IF create_request_builder(cfg[tasks[r][p].api]).ok
       THEN /\ locks.app_state = Free
            /\ locks' = [locks EXCEPT !.app_state = << r, p >>]
            /\ SetTask(r, p, [tasks[r][p] EXCEPT !.pc = "sending"])
       ELSE /\ SetTask(r, p, [tasks[r][p] EXCEPT !.pc = "done", !.ret = "Err"])
            /\ UNCHANGED locks
    /\ UNCHANGED << generator, process, cfg, runs, app_state, handlers >>

\* unwrap() instead of `?`: a request that cannot be built panics the future
Task_execute_panicking(r, p) ==
    /\ p \in CurrentGroup(r)
    /\ tasks[r][p].kind = "Task"
    /\ tasks[r][p].pc = "pending"
    /\ IF create_request_builder(cfg[tasks[r][p].api]).ok
       THEN tasks' = [tasks EXCEPT ![r][p].pc = "sending"]
       ELSE tasks' = [tasks EXCEPT ![r][p].pc = "panicked"]
    /\ UNCHANGED << generator, process, cfg, runs, app_state, locks, handlers >>

(***************************************************************************)
(* tasks.rs Task::execute                                                  *)
(***************************************************************************)
\* lines 48-63: the future is first polled; create_request_builder(..)?
\* returns the Err at once, otherwise the request is sent.  The header loop
\* of lines 52-59 fills a map that is never used and has no effect.
Task_execute(r, p) ==
    /\ p \in CurrentGroup(r)
    /\ tasks[r][p].kind = "Task"
    /\ tasks[r][p].pc = "pending"
    /\ IF create_request_builder(cfg[tasks[r][p].api]).ok
       THEN SetTask(r, p, [tasks[r][p] EXCEPT !.pc = "sending"])
       ELSE SetTask(r, p, [tasks[r][p] EXCEPT !.pc = "done", !.ret = "Err"])
    /\ UNCHANGED << generator, process, cfg, runs, app_state, locks, handlers >>

\* lines 63-109, up to the call of update_app_state: the result record and
\* the value execute will return
Task_result(api_config, response, duration) ==
    IF response.transport = "Ok"
    THEN IF is_success(response.code)
         THEN [data |-> MonitoringData("OK", duration, response.code, api_config.method),
               ret |-> "Ok"]
         ELSE [data |-> MonitoringData("ERROR", duration, response.code, api_config.method),
               ret |-> "Err"]
    ELSE [data |-> MonitoringData("ERROR", duration, None, api_config.method),
          ret |-> "Err"]

\* a request that fails is sent again
Task_response_retrying(r, p, response, duration) ==
    /\ p \in DOMAIN tasks[r]
    /\ tasks[r][p].kind = "Task"
    /\ tasks[r][p].pc = "sending"
    /\ LET res == Task_result(cfg[tasks[r][p].api], response, duration)
       IN IF res.ret = "Ok"
          THEN SetTask(r, p, [tasks[r][p] EXCEPT !.pc = "lock_app_state",
                                                 !.monitoring_data = res.data,
                                                 !.ret = res.ret])
          ELSE SetTask(r, p, [tasks[r][p] EXCEPT !.monitoring_data = res.data])
    /\ UNCHANGED << generator, process, cfg, runs, app_state, locks, handlers >>

\* request_builder.send().await resolves
Task_response(r, p, response, duration) ==
    /\ p \in DOMAIN tasks[r]
    /\ tasks[r][p].kind = "Task"
    /\ tasks[r][p].pc = "sending"
    /\ LET res == Task_result(cfg[tasks[r][p].api], response, duration)
       IN SetTask(r, p, [tasks[r][p] EXCEPT !.pc = "lock_app_state",
                                            !.monitoring_data = res.data,
                                            !.ret = res.ret])
    /\ UNCHANGED << generator, process, cfg, runs, app_state, locks, handlers >>

(***************************************************************************)
(* loadtest.rs LoadTest::execute, from the design document: the generator  *)
(* runs until its deadline and one Load-Test Result is written; a request  *)
(* that cannot be built is the task's failure, the aggregate still written *)
(***************************************************************************)
LoadTest_execute(r, p) ==
    /\ p \in CurrentGroup(r)
    /\ tasks[r][p].kind = "LoadTest"
    /\ tasks[r][p].pc = "pending"
    /\ SetTask(r, p, [tasks[r][p] EXCEPT !.pc = "sending"])
    /\ UNCHANGED << generator, process, cfg, runs, app_state, locks, handlers >>

LoadTest_finish(r, p) ==
    /\ p \in DOMAIN tasks[r]
    /\ tasks[r][p].kind = "LoadTest"
    /\ tasks[r][p].pc = "sending"
    /\ SetTask(r, p, [tasks[r][p] EXCEPT
            !.pc = "lock_app_state",
            !.monitoring_data = LoadTestMonitoringData,
            !.ret = IF create_request_builder(cfg[tasks[r][p].api]).ok
                    THEN "Ok" ELSE "Err"])
    /\ UNCHANGED << generator, process, cfg, runs, app_state, locks, handlers >>

(***************************************************************************)
(* tasks.rs update_app_state                                               *)
(***************************************************************************)
\* line 145: app_state.lock().await
lock_app_state(r, p) ==
    /\ p \in DOMAIN tasks[r]
    /\ tasks[r][p].pc = "lock_app_state"
    /\ locks.app_state = Free
    /\ locks' = [locks EXCEPT !.app_state = << r, p >>]
    /\ SetTask(r, p, [tasks[r][p] EXCEPT !.pc = "lock_table"])
    /\ UNCHANGED << generator, process, cfg, runs, app_state, handlers >>

\* line 149: state.task_monitoring_data.lock().await
lock_table(r, p) ==
    /\ p \in DOMAIN tasks[r]
    /\ tasks[r][p].pc = "lock_table"
    /\ locks[TableOf(tasks[r][p])] = Free
    /\ locks' = [locks EXCEPT ![TableOf(tasks[r][p])] = << r, p >>]
    /\ SetTask(r, p, [tasks[r][p] EXCEPT !.pc = "insert"])
    /\ UNCHANGED << generator, process, cfg, runs, app_state, handlers >>

\* line 153 and the return: data.insert(..); both guards are dropped;
\* execute returns to the group's future, which logs the outcome
insert_and_return(r, p) ==
    /\ p \in DOMAIN tasks[r]
    /\ tasks[r][p].pc = "insert"
    /\ LET t == tasks[r][p]
           url == cfg[t.api].url
       IN app_state' =
            IF t.kind = "Task"
            THEN update_app_state(app_state, url, "Task", t.monitoring_data)
            ELSE LoadTest_update_app_state(app_state, url, t.monitoring_data)
    /\ locks' = [locks EXCEPT ![TableOf(tasks[r][p])] = Free, !.app_state = Free]
    /\ SetTask(r, p, [tasks[r][p] EXCEPT !.pc = "done", !.monitoring_data = NoData])
    /\ UNCHANGED << generator, process, cfg, runs, handlers >>

(***************************************************************************)
(* Specification                                                           *)
(***************************************************************************)
TaskStep(r, p) ==
    \/ Task_execute(r, p)
    \/ \E response \in Responses, duration \in Durations :
          Task_response(r, p, response, duration)
    \/ LoadTest_execute(r, p)
    \/ LoadTest_finish(r, p)
    \/ lock_app_state(r, p)
    \/ lock_table(r, p)
    \/ insert_and_return(r, p)

\* every interleaving of the runs, the tasks and the handlers
ConcurrentNext ==
    \/ \E r \in Runs : trigger_monitoring(r)
    \/ \E r \in Runs : start_monitoring(r)
    \/ \E r \in Runs : join_all(r)
    \/ \E r \in Runs : \E p \in DOMAIN tasks[r] : TaskStep(r, p)
    \/ \E h \in Handlers : handler_lock_app_state(h)
    \/ \E h \in Handlers : handler_lock_table(h)
    \/ \E h \in Handlers : handler_respond(h)

ConcurrentSpec == Init /\ [][ConcurrentNext]_vars

NoRunUnderWay == \A r \in Runs : runs[r].pc \in {"idle", "done"}

\* A bound on the outside world, not on the program: a trigger request
\* arrives while another run is under way only when the configuration has a
\* single endpoint; with more endpoints it arrives between runs.
TriggerArrives(r) ==
    /\ Len(cfg) = 1 \/ NoRunUnderWay
    /\ trigger_monitoring(r)

Next ==
    \/ \E r \in Runs : TriggerArrives(r)
    \/ \E r \in Runs : start_monitoring(r)
    \/ \E r \in Runs : join_all(r)
    \/ \E r \in Runs : \E p \in DOMAIN tasks[r] : TaskStep(r, p)
    \/ \E h \in Handlers : handler_lock_app_state(h)
    \/ \E h \in Handlers : handler_lock_table(h)
    \/ \E h \in Handlers : handler_respond(h)

Spec == Init /\ [][Next]_vars

(***************************************************************************)
(* The program over configurations whose order keys lie at the end of the  *)
(* representable range: present keys 1 and usize::MAX, and absent keys.    *)
(***************************************************************************)
OrderedApiConfigs ==
    { ApiConfig(1,         "u1", "GET", "valid", "absent", FALSE, NoProfile),
      ApiConfig(USIZE_MAX, "u1", "GET", "valid", "absent", FALSE, NoProfile),
      ApiConfig(None,      "u2", "GET", "valid", "absent", FALSE, NoProfile),
      ApiConfig(None,      "u2", "GET", "valid", "absent", TRUE,  NoProfile) }

OrderedSettings == UNION { [1..n -> OrderedApiConfigs] : n \in 1..MaxApis }

OrderInit ==
    /\ process = Serving
    /\ cfg \in { load_config(apis, Serving.env).apis : apis \in OrderedSettings }
    /\ app_state = [task_monitoring_data |-> {}, load_test_monitoring_data |-> {}]
    /\ runs = [r \in Runs |->
                 [pc |-> IF r = 1 THEN "spawned" ELSE "idle", order_keys |-> << >>]]
    /\ tasks = [r \in Runs |-> << >>]
    /\ locks = [app_state |-> Free, task_monitoring_data |-> Free,
                load_test_monitoring_data |-> Free]
    /\ handlers = [h \in Handlers |-> "idle"]
    /\ generator = NoGenerator

OrderSpec == OrderInit /\ [][Next]_vars

(***************************************************************************)
(* Start of the process: main loads the configuration (config.rs           *)
(* load_config) and, when that succeeds, spawns the initial run.  The      *)
(* specification follows the process from the deserialized settings to the *)
(* tasks the initial run builds.                                           *)
(***************************************************************************)
\* endpoint descriptors as they come out of the configuration file
ConfigFileApis ==
    { ApiConfig(1,    "u1",     "GET",  "valid", "absent", FALSE, NoProfile),
      ApiConfig(1,    "",       "GET",  "valid", "absent", FALSE, NoProfile),
      ApiConfig(2,    "${VAR}", "GET",  "valid", "absent", FALSE, NoProfile),
      ApiConfig(1,    "u2",     "POST", "valid", "absent", TRUE,  NoProfile),
      ApiConfig(None, "u2",     "POST", "valid", "absent", TRUE,
                {LoadTestConfig(2, 3, 1, 1, 2)}) }

ConfigFiles == UNION { [1..n -> ConfigFileApis] : n \in 1..MaxApis }

ConfigInit ==
    /\ process \in [pc : {"load_config"}, env : EnvValues]
    /\ cfg \in ConfigFiles
    /\ app_state = [task_monitoring_data |-> {}, load_test_monitoring_data |-> {}]
    /\ runs = [r \in Runs |-> [pc |-> "idle", order_keys |-> << >>]]
    /\ tasks = [r \in Runs |-> << >>]
    /\ locks = [app_state |-> Free, task_monitoring_data |-> Free,
                load_test_monitoring_data |-> Free]
    /\ handlers = [h \in Handlers |-> "idle"]
    /\ generator = NoGenerator

\* main.rs lines 22-47: load_config().await.expect(..) ends the process on
\* an Err; otherwise the settings are shared and the initial run is spawned
main_load_config ==
    /\ process.pc = "load_config"
    /\ LET loaded == load_config(cfg, process.env)
       IN IF loaded.ok
          THEN /\ cfg' = loaded.apis
               /\ process' = [process EXCEPT !.pc = "serving"]
               /\ runs' = [runs EXCEPT ![1].pc = "spawned"]
          ELSE /\ process' = [process EXCEPT !.pc = "exited"]
               /\ UNCHANGED << cfg, runs >>
    /\ UNCHANGED << tasks, app_state, locks, handlers, generator >>

ConfigNext ==
    \/ main_load_config
    \/ \E r \in Runs : start_monitoring(r)

ConfigSpec == ConfigInit /\ [][ConfigNext]_vars

(***************************************************************************)
(* The Progressive Load Generator of one Load-Test Task.  loadtest.rs is   *)
(* not part of the sources: the generator follows section 4.3 of the       *)
(* design document, step by step.  The latencies (min / mean / max) are    *)
(* left out.                                                               *)
(***************************************************************************)
\* most attempts sent in one load test
MaxAttempts == 3

\* what the endpoint under test answers
Targets == {"always_ok", "always_failing", "mixed"}

\* the outcomes of one attempt: success status, or a failure (transport
\* error or non-success status)
Outcomes(target) ==
    IF target = "always_ok" THEN {"ok"}
    ELSE IF target = "always_failing" THEN {"failed"}
    ELSE {"ok", "failed"}

\* Load Profiles as section 3 defines them (1 <= initial <= max):
\* (initial, max, rampStep, retryCount, maxDurationSeconds)
LoadProfiles ==
    { LoadTestConfig(1, 3, 1, 1, 2),    \* max reached at the deadline
      LoadTestConfig(1, 3, 1, 0, 1),    \* deadline before max is reached
      LoadTestConfig(2, 2, 1, 2, 1),    \* starts at max; two retries
      LoadTestConfig(1, 2, 1, 0, 2) }   \* max reached before the deadline

\* profiles validate_settings lets through: it looks at no field of a profile
AcceptedProfiles == LoadProfiles \cup { LoadTestConfig(2, 1, 1, 0, 1) }

Greater(a, b) == IF a >= b THEN a ELSE b
Smaller(a, b) == IF a <= b THEN a ELSE b

\* the profile of the endpoint under test
Profile == CHOOSE profile \in cfg[1].load_test_config : TRUE

\* a virtual worker: off, idle between attempts, or with an attempt in
\* flight; failed counts the failed attempts of its current logical request
Worker(st, failed) == [st |-> st, failed |-> failed]

NewGenerator(profile, target) ==
    [pc |-> "idle", target |-> target, elapsed |-> 0, concurrency |-> 0,
     workers |-> [w \in 1..Greater(profile.initial_load, profile.max_load) |->
                     Worker("off", 0)],
     total_attempts |-> 0, successes |-> 0, failures |-> 0,
     peak_concurrency |-> 0, termination |-> "none", ret |-> "none"]

\* the Load-Test Result: the aggregate of section 4.3, step 5
LoadTestResult(g) ==
    [total_attempts |-> g.total_attempts, successes |-> g.successes,
     failures |-> g.failures, peak_concurrency |-> g.peak_concurrency,
     elapsed |-> g.elapsed, termination |-> g.termination]

GeneratorInit(profiles) ==
    /\ process = Serving
    /\ cfg \in { load_config(<< ApiConfig(1, "u1", "GET", headers, "absent",
                                           TRUE, {profile}) >>, Serving.env).apis :
                    profile \in profiles, headers \in {"valid", "invalid"} }
    /\ generator \in { NewGenerator(Profile, target) : target \in Targets }
    /\ app_state = [task_monitoring_data |-> {}, load_test_monitoring_data |-> {}]
    /\ runs = [r \in Runs |-> [pc |-> "idle", order_keys |-> << >>]]
    /\ tasks = [r \in Runs |-> << >>]
    /\ locks = [app_state |-> Free, task_monitoring_data |-> Free,
                load_test_monitoring_data |-> Free]
    /\ handlers = [h \in Handlers |-> "idle"]

Active(workers) == { w \in DOMAIN workers : workers[w].st # "off" }
InFlightWorkers(workers) == { w \in DOMAIN workers : workers[w].st = "in_flight" }

\* new workers are started to match the target; none is stopped
start_workers(workers, target) ==
    [w \in DOMAIN workers |->
        IF w <= target /\ workers[w].st = "off" THEN Worker("idle", 0)
        ELSE workers[w]]

\* step 1, and the process-level fault of a request that cannot be built:
\* the load test is aborted, the partial aggregate written, failure reported
LoadGenerator_start ==
    /\ generator.pc = "idle"
    /\ IF create_request_builder(cfg[1]).ok
       THEN /\ generator' =
                [generator EXCEPT
                    !.pc = "running",
                    !.concurrency = Profile.initial_load,
                    !.workers = start_workers(@, Profile.initial_load),
                    !.peak_concurrency = Profile.initial_load]
            /\ UNCHANGED app_state
       ELSE LET g == [generator EXCEPT !.pc = "done", !.termination = "aborted",
                                       !.ret = "Err"]
            IN /\ generator' = g
               /\ app_state' = LoadTest_update_app_state(app_state, cfg[1].url,
                                                         LoadTestResult(g))
    /\ UNCHANGED << process, cfg, runs, tasks, locks, handlers >>

\* a worker issues its next attempt, back to back, while the test is active
worker_send(w) ==
    /\ generator.pc = "running"
    /\ w \in DOMAIN generator.workers
    /\ generator.workers[w].st = "idle"
    /\ generator.total_attempts
          + Cardinality(InFlightWorkers(generator.workers)) < MaxAttempts
    /\ generator' = [generator EXCEPT !.workers[w].st = "in_flight"]
    /\ UNCHANGED << process, cfg, runs, tasks, app_state, locks, handlers >>

\* an attempt counted, and a failure counted with it although a retry is left
record_attempt_without_retry(g, w, outcome, retry_count) ==
    [g EXCEPT !.total_attempts = @ + 1,
              !.successes = IF outcome = "ok" THEN @ + 1 ELSE @,
              !.failures = IF outcome = "failed" THEN @ + 1 ELSE @,
              !.workers[w] = Worker("idle", 0)]

\* the total counted in the success branch only
record_attempt_counting_successes(g, w, outcome, retry_count) ==
    LET final == outcome = "ok" \/ g.workers[w].failed >= retry_count
    IN [g EXCEPT
          !.total_attempts = IF outcome = "ok" THEN @ + 1 ELSE @,
          !.successes = IF outcome = "ok" THEN @ + 1 ELSE @,
          !.failures = IF outcome = "failed" /\ final THEN @ + 1 ELSE @,
          !.workers[w] = IF final THEN Worker("idle", 0)
                         ELSE Worker("idle", g.workers[w].failed + 1)]

\* step 3: every attempt counts toward the total; a success ends the logical
\* request as one success; a failure is retried up to retry_count more times
\* and then ends the logical request as one failure
record_attempt(g, w, outcome, retry_count) ==
    LET final == outcome = "ok" \/ g.workers[w].failed >= retry_count
    IN [g EXCEPT
          !.total_attempts = @ + 1,
          !.successes = IF outcome = "ok" THEN @ + 1 ELSE @,
          !.failures = IF outcome = "failed" /\ final THEN @ + 1 ELSE @,
          !.workers[w] = IF final THEN Worker("idle", 0)
                         ELSE Worker("idle", g.workers[w].failed + 1)]

\* the answer to an attempt in flight arrives, also during the drain
worker_response(w, outcome) ==
    /\ generator.pc \in {"running", "draining"}
    /\ w \in DOMAIN generator.workers
    /\ generator.workers[w].st = "in_flight"
    /\ outcome \in Outcomes(generator.target)
    /\ generator' = record_attempt(generator, w, outcome, Profile.retry_count)
    /\ UNCHANGED << process, cfg, runs, tasks, app_state, locks, handlers >>

\* a ramp that stops one worker short of the cap
ramp_below_max(concurrency, profile) ==
    Smaller(concurrency + profile.spawn_rate, profile.max_load - 1)

\* step 2: the target after a ramp interval, capped at max_load
ramp(concurrency, profile) ==
    Smaller(concurrency + profile.spawn_rate, profile.max_load)

\* a test that is over as soon as the target has reached max_load
test_is_over_at_max_load(elapsed, concurrency, profile) ==
    elapsed >= profile.max_duration_secs \/ concurrency >= profile.max_load

\* step 4: the test is over when the elapsed time reaches the ceiling,
\* whatever the concurrency
test_is_over(elapsed, concurrency, profile) ==
    elapsed >= profile.max_duration_secs

\* a ramp interval (one second) has passed: the target is raised, workers
\* are started to match it, and at the deadline the drain begins
ramp_interval ==
    /\ generator.pc = "running"
    /\ LET target == ramp(generator.concurrency, Profile)
           started == start_workers(generator.workers, target)
           elapsed == generator.elapsed + 1
       IN generator' =
            [generator EXCEPT
                !.elapsed = elapsed,
                !.concurrency = target,
                !.workers = started,
                !.peak_concurrency = Greater(@, Cardinality(Active(started))),
                !.pc = IF test_is_over(elapsed, target, Profile)
                       THEN "draining" ELSE "running"]
    /\ UNCHANGED << process, cfg, runs, tasks, app_state, locks, handlers >>

\* step 4, the grace period of the drain runs out: what is still in flight
\* is discarded
grace_period_expires ==
    /\ generator.pc = "draining"
    /\ InFlightWorkers(generator.workers) # {}
    /\ generator' =
          [generator EXCEPT !.workers =
              [w \in DOMAIN @ |-> IF @[w].st = "in_flight"
                                  THEN Worker("off", @[w].failed) ELSE @[w]]]
    /\ UNCHANGED << process, cfg, runs, tasks, app_state, locks, handlers >>

\* step 5: nothing is in flight any more; the aggregate is written as the
\* Load-Test Result of the endpoint
LoadGenerator_finish ==
    /\ generator.pc = "draining"
    /\ InFlightWorkers(generator.workers) = {}
    /\ LET g == [generator EXCEPT !.pc = "done",
                                  !.termination = "duration-expired",
                                  !.ret = "Ok"]
       IN /\ generator' = g
          /\ app_state' = LoadTest_update_app_state(app_state, cfg[1].url,
                                                    LoadTestResult(g))
    /\ UNCHANGED << process, cfg, runs, tasks, locks, handlers >>

LoadTestNext ==
    \/ LoadGenerator_start
    \/ \E w \in DOMAIN generator.workers : worker_send(w)
    \/ \E w \in DOMAIN generator.workers, outcome \in {"ok", "failed"} :
          worker_response(w, outcome)
    \/ ramp_interval
    \/ grace_period_expires
    \/ LoadGenerator_finish

\* the generator over the Load Profiles of section 3
LoadTestSpec == GeneratorInit(LoadProfiles) /\ [][LoadTestNext]_vars

\* the generator over every profile the validation accepts
AcceptedProfileSpec == GeneratorInit(AcceptedProfiles) /\ [][LoadTestNext]_vars

\* the clock advances, the grace period is bounded, the generator is
\* scheduled
GeneratorProgress ==
    LoadGenerator_start \/ ramp_interval \/ grace_period_expires
        \/ LoadGenerator_finish

FairLoadTestSpec ==
    GeneratorInit(LoadProfiles) /\ [][LoadTestNext]_vars /\ WF_vars(GeneratorProgress)

(***************************************************************************)
(* Fairness.  The runtime polls the futures that can make progress, and    *)
(* every request sent resolves to a response or an error, at the latest by *)
(* the client's timeout: a step of the program that is possible does not   *)
(* wait for ever (WF).  tokio's Mutex hands the lock to its waiters in     *)
(* FIFO order, so the writers are not overtaken for ever by readers (SF on *)
(* the acquisition).  Triggers and read requests come from outside and are *)
(* not forced to arrive; a reader that holds a lock does finish.           *)
(***************************************************************************)
Positions == 1..MaxApis

\* the steps of the runs and their tasks that wait for nothing but the
\* runtime or the peer; each stays enabled until it is taken
ProgramProgress ==
    \/ \E r \in Runs : start_monitoring(r) \/ join_all(r)
    \/ \E r \in Runs : \E p \in Positions :
          \/ Task_execute(r, p)
          \/ \E response \in Responses, duration \in Durations :
                Task_response(r, p, response, duration)
          \/ LoadTest_execute(r, p)
          \/ LoadTest_finish(r, p)
          \/ lock_table(r, p)
          \/ insert_and_return(r, p)

\* a read handler that holds the AppState lock goes on to release it
HandlerProgress ==
    \E h \in Handlers : handler_lock_table(h) \/ handler_respond(h)

Fairness ==
    /\ WF_vars(ProgramProgress)
    /\ WF_vars(HandlerProgress)
    /\ SF_vars(\E r \in Runs : \E p \in Positions : lock_app_state(r, p))

\* For the liveness properties the bound on the outside world is tighter, to
\* keep the graph of the liveness check small: trigger requests arrive only
\* when the configuration has a single endpoint.
TriggerOfSingleEndpoint(r) ==
    /\ Len(cfg) = 1
    /\ trigger_monitoring(r)

FairNext ==
    \/ \E r \in Runs : TriggerOfSingleEndpoint(r)
    \/ \E r \in Runs : start_monitoring(r)
    \/ \E r \in Runs : join_all(r)
    \/ \E r \in Runs : \E p \in DOMAIN tasks[r] : TaskStep(r, p)
    \/ \E h \in Handlers : handler_lock_app_state(h)
    \/ \E h \in Handlers : handler_lock_table(h)
    \/ \E h \in Handlers : handler_respond(h)

FairSpec == Init /\ [][FairNext]_vars /\ Fairness

(***************************************************************************)
(* Vocabulary of the properties                                            *)
(***************************************************************************)
Built(r, p) == p \in DOMAIN tasks[r]
Started(r, p) == Built(r, p) /\ tasks[r][p].pc # "pending"
Finished(r, p) == Built(r, p) /\ tasks[r][p].pc \in {"done", "joined"}
InFlight(r, p) == Built(r, p) /\ tasks[r][p].pc = "sending"
OrderKey(r, p) == task_order_of(cfg, tasks[r][p])

(***************************************************************************)
(* C1: within one run, a task of a higher order key has not started unless *)
(* every task of a lower order key has finished (returned Ok or Err).      *)
(***************************************************************************)
GroupsInAscendingOrder ==
    \A r \in Runs : \A p, q \in DOMAIN tasks[r] :
        (OrderKey(r, p) < OrderKey(r, q) /\ Started(r, q)) => Finished(r, p)

\* a task of the second group has its request in flight
SecondGroupRunning ==
    \E r \in Runs : \E p, q \in DOMAIN tasks[r] :
        /\ OrderKey(r, p) < OrderKey(r, q)
        /\ InFlight(r, q)
        /\ Finished(r, p)

StartMember(r, p) == Task_execute(r, p) \/ LoadTest_execute(r, p)

AnswerMember(r, p) ==
    \/ \E response \in Responses, duration \in Durations :
          Task_response(r, p, response, duration)
    \/ LoadTest_finish(r, p)

(***************************************************************************)
(* C3: the members of a group are not serialized.  A member that has not   *)
(* started can start whatever its siblings are doing, and of two members   *)
(* with requests in flight either one can be the first to get its answer.  *)
(***************************************************************************)
MembersRaceFreely ==
    \A r \in Runs : \A p \in Positions :
        /\ (p \in CurrentGroup(r) /\ tasks[r][p].pc = "pending")
              => ENABLED StartMember(r, p)
        /\ InFlight(r, p) => ENABLED AnswerMember(r, p)

\* two members of one group both have their request in flight
TwoMembersInFlight ==
    \E r \in Runs : \E p, q \in CurrentGroup(r) :
        p # q /\ InFlight(r, p) /\ InFlight(r, q)

AllBuiltTasksFinished ==
    \A r \in Runs : \A p \in Positions : Built(r, p) => Finished(r, p)

(***************************************************************************)
(* C2: a failed task stops neither its siblings nor the later groups:      *)
(* every task the run has built is eventually started and finished,        *)
(* whichever other tasks fail.                                             *)
(***************************************************************************)
EveryBuiltTaskFinishes == []<>AllBuiltTasksFinished

\* one member of a group has returned Err, its sibling Ok
SiblingOfFailedTaskFinished ==
    \E r \in Runs : \E p, q \in CurrentGroup(r) :
        /\ p # q
        /\ tasks[r][p].pc = "done" /\ tasks[r][p].ret = "Err"
        /\ tasks[r][q].pc = "done" /\ tasks[r][q].ret = "Ok"

(***************************************************************************)
(* C4: once a run has completed, the health-check table holds exactly one  *)
(* result under the lookup key of every endpoint that is not flagged for   *)
(* load testing, whatever the outcome of its request.                      *)
(***************************************************************************)
EveryHealthCheckHasResult ==
    \A r \in Runs : runs[r].pc = "done" =>
        \A i \in DOMAIN cfg : ~cfg[i].load_test =>
            Cardinality({ e \in app_state.task_monitoring_data :
                            e.key = cfg[i].url }) = 1

SuccessRange == 200..299

(***************************************************************************)
(* C5: the result Task::execute writes is decided by the transport outcome *)
(* and the HTTP status alone: OK exactly for a transport success with a    *)
(* status in 200..299, ERROR otherwise; the status code present exactly on *)
(* a transport success, and then the code received; execute returns Ok     *)
(* exactly when the status written is OK; and what is stored is that       *)
(* result.                                                                 *)
(***************************************************************************)
ResultReflectsOutcome ==
    [][ \A r \in Runs : \A p \in Positions :
          /\ \A response \in Responses : \A duration \in Durations :
               Task_response(r, p, response, duration) =>
                 LET d == tasks'[r][p].monitoring_data
                 IN /\ d.status \in {"OK", "ERROR"}
                    /\ d.status = "OK" <=> (response.transport = "Ok"
                                              /\ response.code \in SuccessRange)
                    /\ d.status_code # None <=> response.transport = "Ok"
                    /\ response.transport = "Ok" => d.status_code = response.code
                    /\ tasks'[r][p].ret = "Ok" <=> d.status = "OK"
          /\ (insert_and_return(r, p) /\ tasks[r][p].kind = "Task") =>
                 /\ [key |-> cfg[tasks[r][p].api].url,
                     value |-> tasks[r][p].monitoring_data]
                        \in app_state'.task_monitoring_data
                 /\ tasks'[r][p].ret = "Ok"
                        <=> tasks[r][p].monitoring_data.status = "OK"
      ]_vars

\* the table holds an OK result with status 200 and an ERROR result with 500
OkAndErrorStored ==
    \E e, f \in app_state.task_monitoring_data :
        /\ e.value.status = "OK" /\ e.value.status_code = 200
        /\ f.value.status = "ERROR" /\ f.value.status_code = 500

(***************************************************************************)
(* C6: when an execution of a health-check task finishes with a failure,   *)
(* the entry stored for its endpoint is an ERROR result (of that           *)
(* execution, not one left over from before).                              *)
(***************************************************************************)
LatestFailureIsStored ==
    [][ \A r \in Runs : \A p \in Positions :
          ( /\ Built(r, p)
            /\ tasks[r][p].kind = "Task"
            /\ tasks[r][p].pc # "done"
            /\ tasks'[r][p].pc = "done"
            /\ tasks'[r][p].ret = "Err" )
          => \E e \in app_state'.task_monitoring_data :
                e.key = cfg[tasks[r][p].api].url /\ e.value.status = "ERROR"
      ]_vars

FlagsAgreePerKey ==
    \A i, j \in DOMAIN cfg :
        cfg[i].load_test # cfg[j].load_test => cfg[i].url # cfg[j].url

OneResultPerKey ==
    \A t \in {"task_monitoring_data", "load_test_monitoring_data"} :
        \A e, f \in app_state[t] : e.key = f.key => e = f

Overwritten(table, key, value) ==
    { e \in table : e.key # key } \cup { [key |-> key, value |-> value] }

WriteOf(r, p) ==
    LET t == tasks[r][p]
    IN app_state' = [app_state EXCEPT
                        ![TableOf(t)] = Overwritten(@, cfg[t.api].url, t.monitoring_data)]

RunStep(r) ==
    \/ start_monitoring(r)
    \/ join_all(r)
    \/ \E p \in DOMAIN tasks[r] : TaskStep(r, p)

HolderStep ==
    \/ \E h \in Handlers : handler_lock_table(h) \/ handler_respond(h)
    \/ \E r \in Runs : \E p \in DOMAIN tasks[r] :
          lock_table(r, p) \/ insert_and_return(r, p)

NoRunIsStuck ==
    \A r \in Runs : runs[r].pc \in {"spawned", "running"} =>
        \/ ENABLED RunStep(r)
        \/ locks.app_state # Free /\ ENABLED HolderStep

(***************************************************************************)
(* C9: with runs executing concurrently, the only changes of a table are   *)
(* writes of update_app_state, each replacing the slot of its key by the   *)
(* complete result of the writing task (the last writer wins, no slot is   *)
(* ever a mixture); and no run is ever stuck: while a run is unfinished,   *)
(* a step of the program is possible.                                      *)
(***************************************************************************)
LastWriterWins ==
    /\ []NoRunIsStuck
    /\ [][ /\ \A r \in Runs : \A p \in Positions :
                insert_and_return(r, p) => WriteOf(r, p)
           /\ app_state' # app_state =>
                \E r \in Runs : \E p \in Positions : insert_and_return(r, p)
         ]_vars

\* two runs are under way; a task of one is about to overwrite the result
\* the other run's task of the same endpoint has stored
ConcurrentOverwrite ==
    \E r, q \in Runs : \E p \in Positions :
        /\ r # q
        /\ Built(r, p) /\ tasks[r][p].pc = "insert"
        /\ Built(q, p) /\ tasks[q][p].pc = "done"
        /\ \E e \in app_state[TableOf(tasks[r][p])] :
              /\ e.key = cfg[tasks[r][p].api].url
              /\ e.value # tasks[r][p].monitoring_data

(***************************************************************************)
(* C10: under the fairness above (every request sent is answered, the      *)
(* runtime polls every future), every run of start_monitoring completes,   *)
(* whichever of its tasks succeed or fail.                                 *)
(***************************************************************************)
EveryRunCompletes == []<>NoRunUnderWay

\* a run has completed although a task of a group before the last failed
RunCompletedDespiteFailure ==
    \E r \in Runs : \E p, q \in DOMAIN tasks[r] :
        /\ runs[r].pc = "done"
        /\ OrderKey(r, p) < OrderKey(r, q)
        /\ ~create_request_builder(cfg[tasks[r][p].api]).ok

(***************************************************************************)
(* C11: a run builds exactly one task per configured endpoint, in the      *)
(* order of the configuration: a Load-Test Task where the load-test flag   *)
(* is set, a Health-Check Task otherwise.                                  *)
(***************************************************************************)
OneTaskPerEndpoint ==
    \A r \in Runs : runs[r].pc \in {"running", "done"} =>
        /\ Len(tasks[r]) = Len(cfg)
        /\ \A i \in DOMAIN cfg :
              /\ tasks[r][i].api = i
              /\ tasks[r][i].kind = IF cfg[i].load_test THEN "LoadTest" ELSE "Task"

\* a run has built a Load-Test Task and a Health-Check Task
BothKindsBuilt ==
    \E r \in Runs : \E p, q \in DOMAIN tasks[r] :
        tasks[r][p].kind = "LoadTest" /\ tasks[r][q].kind = "Task"

LoadConfigOutcome ==
    /\ process'.pc = "exited" <=> \E i \in DOMAIN cfg : cfg[i].url = ""
    /\ process'.pc = "serving" =>
          /\ DOMAIN cfg' = DOMAIN cfg
          /\ \A i \in DOMAIN cfg : cfg[i].load_test =>
                cfg'[i].load_test_config =
                    IF cfg[i].load_test_config = {}
                    THEN { [initial_load |-> 1, max_load |-> 10, spawn_rate |-> 1,
                            retry_count |-> 0, max_duration_secs |-> 60] }
                    ELSE cfg[i].load_test_config

NothingRunsAfterExit ==
    process.pc = "exited" =>
        \A r \in Runs : runs[r].pc = "idle" /\ tasks[r] = << >>

LoadTestsHaveProfiles ==
    \A r \in Runs : \A p \in DOMAIN tasks[r] :
        tasks[r][p].kind = "LoadTest" =>
            cfg[tasks[r][p].api].load_test_config # {}

(***************************************************************************)
(* C12: loading the configuration fails, and the process ends with no run  *)
(* started, exactly when an endpoint has an empty URL; when it succeeds,   *)
(* every endpoint flagged for load testing has a profile, the one supplied *)
(* or else the defaults (1, 10, 1, 0, 60), and every Load-Test Task built  *)
(* has a profile.                                                          *)
(***************************************************************************)
ValidationGivesProfiles ==
    /\ [][main_load_config => LoadConfigOutcome]_vars
    /\ []NothingRunsAfterExit
    /\ []LoadTestsHaveProfiles

\* a Load-Test Task built for an endpoint that got the default profile
DefaultProfileTaskBuilt ==
    \E r \in Runs : \E p \in DOMAIN tasks[r] :
        /\ tasks[r][p].kind = "LoadTest"
        /\ cfg[tasks[r][p].api].load_test_config = {LoadTestConfig_default}

(***************************************************************************)
(* C13: tasks whose endpoints have equal order keys are in the same group, *)
(* and a task whose endpoint has no order key is started only after every  *)
(* task whose endpoint has one, whatever its value, has finished.          *)
(***************************************************************************)
AbsentKeyRunsLast ==
    \A r \in Runs : \A p, q \in DOMAIN tasks[r] :
        LET kp == cfg[tasks[r][p].api].task_order
            kq == cfg[tasks[r][q].api].task_order
        IN /\ (kp # None /\ kp = kq) => OrderKey(r, p) = OrderKey(r, q)
           /\ (kp # None /\ kq = None /\ Started(r, q)) => Finished(r, p)

Started_test == generator.pc \in {"running", "draining", "done"}
Aborted == generator.termination = "aborted"
Completed == generator.pc = "done" /\ ~Aborted

(***************************************************************************)
(* C14: for every profile the validation accepts, while the load test is   *)
(* active the number of virtual workers is at least initialConcurrency and *)
(* at most maxConcurrency, and so is the peak concurrency of the result.   *)
(***************************************************************************)
ConcurrencyWithinProfile ==
    /\ generator.pc = "running" =>
          /\ Cardinality(Active(generator.workers)) >= Profile.initial_load
          /\ Cardinality(Active(generator.workers)) <= Profile.max_load
    /\ (Started_test /\ ~Aborted) =>
          /\ generator.peak_concurrency >= Profile.initial_load
          /\ generator.peak_concurrency <= Profile.max_load

(***************************************************************************)
(* C15: the result of every completed load test has                        *)
(* totalAttempts = successes + failures.                                   *)
(***************************************************************************)
AttemptsAreOutcomes ==
    Completed => generator.total_attempts = generator.successes + generator.failures

(***************************************************************************)
(* C15, amended: totalAttempts >= successes + failures, with equality when *)
(* no attempt was retried (retryCount is 0, or no attempt failed); and the *)
(* result written carries these totals.                                    *)
(***************************************************************************)
AttemptsCoverOutcomes ==
    /\ generator.pc # "none" =>
          /\ generator.total_attempts >= generator.successes + generator.failures
          /\ (Profile.retry_count = 0 \/ generator.target = "always_ok") =>
                generator.total_attempts = generator.successes + generator.failures
    /\ Completed =>
          \E e \in app_state.load_test_monitoring_data :
              /\ e.value.total_attempts = generator.total_attempts
              /\ e.value.successes = generator.successes
              /\ e.value.failures = generator.failures

\* a completed load test in which a failed attempt was retried
RetriedAttemptCounted ==
    /\ Completed
    /\ generator.failures >= 1
    /\ generator.total_attempts > generator.successes + generator.failures

RECURSIVE FailedAttemptsPending(_, _)
FailedAttemptsPending(workers, ws) ==
    IF ws = {} THEN 0
    ELSE LET w == CHOOSE x \in ws : TRUE
         IN workers[w].failed + FailedAttemptsPending(workers, ws \ {w})

\* every counted failure has consumed retryCount + 1 attempts, a success
\* ends its logical request, and no logical request gets more attempts
RetryAccounting ==
    /\ [](generator.pc # "none" =>
            /\ \A w \in DOMAIN generator.workers :
                  generator.workers[w].failed <= Profile.retry_count
            /\ generator.target = "always_failing" =>
                  /\ generator.successes = 0
                  /\ generator.total_attempts
                        = generator.failures * (Profile.retry_count + 1)
                          + FailedAttemptsPending(generator.workers,
                                                  DOMAIN generator.workers))
    /\ [][ \A w \in DOMAIN generator.workers :
              /\ worker_response(w, "ok") =>
                    /\ generator'.successes = generator.successes + 1
                    /\ generator'.failures = generator.failures
                    /\ generator'.workers[w].failed = 0
              /\ worker_response(w, "failed") =>
                    /\ generator'.successes = generator.successes
                    /\ generator'.failures = generator.failures + 1
                          <=> generator.workers[w].failed = Profile.retry_count
          ]_vars

(***************************************************************************)
(* C16: a logical request that keeps failing gets exactly retryCount + 1   *)
(* attempts and is then one failure, one that succeeds is one success with *)
(* no further attempts, and the result of a load test against an           *)
(* always-failing endpoint has successes = 0 and failures > 0.             *)
(***************************************************************************)
AlwaysFailingGivesFailures ==
    /\ RetryAccounting
    /\ []((Completed /\ generator.target = "always_failing") =>
            generator.successes = 0 /\ generator.failures > 0)

(***************************************************************************)
(* C16, amended: as C16, but against an always-failing endpoint the result *)
(* has successes = 0, and failures > 0 only when a logical request has     *)
(* used up its retryCount + 1 attempts before the test ended: failures is  *)
(* the number of such logical requests.                                    *)
(***************************************************************************)
FailuresAreExhaustedRequests ==
    /\ RetryAccounting
    /\ []((Completed /\ generator.target = "always_failing") =>
            /\ generator.successes = 0
            /\ generator.failures > 0
                  <=> generator.total_attempts
                        - FailedAttemptsPending(generator.workers,
                                                DOMAIN generator.workers) > 0)

\* a completed test against an always-failing endpoint, with retries, in
\* which a logical request was counted as failed
ExhaustedRequestCounted ==
    /\ Completed
    /\ generator.target = "always_failing"
    /\ Profile.retry_count >= 1
    /\ generator.failures >= 1

ResultWritten ==
    app_state.load_test_monitoring_data
        = { [key |-> cfg[1].url, value |-> LoadTestResult(generator)] }

EndsAtDeadlineOnly ==
    /\ generator.pc = "running" => generator.elapsed < Profile.max_duration_secs
    /\ (generator.pc \in {"draining", "done"} /\ ~Aborted) =>
          generator.elapsed = Profile.max_duration_secs
    /\ generator.pc = "done" => ResultWritten
    /\ generator.pc \in {"idle", "running", "draining"} =>
          app_state.load_test_monitoring_data = {}

(***************************************************************************)
(* C17: a load test ends when, and only when, the elapsed time has reached *)
(* maxDurationSeconds, whatever the concurrency; the answer to a request,  *)
(* failed or not, does not end it; the result is written once, when the    *)
(* test ends, and not changed afterwards; and under fairness every load    *)
(* test terminates with its result written.                                *)
(***************************************************************************)
LoadTestEndsAtDeadline ==
    /\ []EndsAtDeadlineOnly
    /\ [][ /\ \A w \in DOMAIN generator.workers :
                worker_response(w, "failed") => generator'.pc = generator.pc
           /\ app_state' # app_state =>
                generator.pc # "done" /\ generator'.pc = "done"
         ]_vars
    /\ <>[](generator.pc = "done" /\ ResultWritten)

\* a load test that ended at its deadline below maxConcurrency, after a
\* request had failed for good
EndedBelowMaxAfterFailure ==
    /\ Completed
    /\ generator.peak_concurrency < Profile.max_load
    /\ generator.failures >= 1

RampSuffices ==
    Profile.initial_load + Profile.spawn_rate * Profile.max_duration_secs
        >= Profile.max_load

LockNames == {"app_state", "task_monitoring_data", "load_test_monitoring_data"}

\* the task at position p of run r is inside update_app_state
Updating(r, p) == Built(r, p) /\ tasks[r][p].pc \in {"lock_table", "insert"}

(***************************************************************************)
(* C19: a task whose request is in flight (sent, not yet answered) holds   *)
(* neither the store-level lock nor a sub-table lock; every lock that is   *)
(* held is held by a task inside its store update or by a reader, so a     *)
(* pending request delays no other task's write and no reader's snapshot.  *)
(***************************************************************************)
NoLockAcrossRequest ==
    \A l \in LockNames :
        /\ \A r \in Runs : \A p \in DOMAIN tasks[r] :
              InFlight(r, p) => locks[l] # << r, p >>
        /\ locks[l] # Free =>
              \/ locks[l][1] = 0 /\ handlers[locks[l][2]] \in {"lock_table", "respond"}
              \/ locks[l][1] \in Runs /\ Updating(locks[l][1], locks[l][2])

\* one task writes its result while the request of another task of the same
\* run is in flight
WriteBesidePendingRequest ==
    \E r \in Runs : \E p, q \in DOMAIN tasks[r] :
        /\ InFlight(r, p)
        /\ tasks[r][q].pc = "insert"
        /\ locks.app_state = << r, q >>

(***************************************************************************)
(* C20: the store-level lock is released before the map write: a task      *)
(* that is about to insert into its sub-table no longer holds the          *)
(* store-level lock, so that two tasks with different keys can be inside   *)
(* their store update at the same time.                                    *)
(***************************************************************************)
StoreLockReleasedBeforeWrite ==
    \A r \in Runs : \A p \in DOMAIN tasks[r] :
        tasks[r][p].pc = "insert" => locks.app_state # << r, p >>

\* the entries of a table under the keys other than key
entries_besides(table, key) == { e \in table : e.key # key }

(***************************************************************************)
(* C21: executing a health-check task changes at most one store entry, the *)
(* one under the task's own key (its URL) in the health-check table: in    *)
(* every step of a health-check task the load-test table and the entries   *)
(* of the health-check table under every other key are unchanged, the      *)
(* store changes only in the task's one insert, and the task's key then    *)
(* has a single entry.                                                     *)
(***************************************************************************)
HealthCheckWritesOwnEntry ==
    [][ \A r \in Runs : \A p \in DOMAIN tasks[r] :
          ( /\ tasks[r][p].kind = "Task"
            /\ p \in DOMAIN tasks'[r]
            /\ tasks'[r][p] # tasks[r][p] ) =>
              LET url == cfg[tasks[r][p].api].url
              IN /\ app_state'.load_test_monitoring_data
                      = app_state.load_test_monitoring_data
                 /\ entries_besides(app_state'.task_monitoring_data, url)
                      = entries_besides(app_state.task_monitoring_data, url)
                 /\ app_state' # app_state =>
                      /\ tasks[r][p].pc = "insert"
                      /\ tasks'[r][p].pc = "done"
                      /\ { e \in app_state'.task_monitoring_data : e.key = url }
                            = { [key |-> url, value |-> tasks[r][p].monitoring_data] }
      ]_vars

\* a health-check task has written its entry beside the entry of another key
\* or beside a Load-Test Result
WrittenBesideOtherEntries ==
    \E r \in Runs : \E p \in DOMAIN tasks[r] :
        /\ tasks[r][p].kind = "Task"
        /\ tasks[r][p].pc \in {"done", "joined"}
        /\ \E e \in app_state.task_monitoring_data : e.key = cfg[tasks[r][p].api].url
        /\ \/ entries_besides(app_state.task_monitoring_data,
                               cfg[tasks[r][p].api].url) # {}
           \/ app_state.load_test_monitoring_data # {}

(***************************************************************************)
(* C22: a health-check task sends at most one request per execution and    *)
(* never retries: a request is sent only in the task's first step and only *)
(* when the request could be built; a task whose request is answered, by   *)
(* any status or by a transport error, goes on to write its result and     *)
(* never sends again; a task whose request cannot be built returns Err     *)
(* without sending.                                                        *)
(***************************************************************************)
SingleAttempt ==
    [][ \A r \in Runs : \A p \in DOMAIN tasks[r] :
          ( /\ tasks[r][p].kind = "Task"
            /\ p \in DOMAIN tasks'[r]
            /\ tasks'[r][p] # tasks[r][p] ) =>
              LET t == tasks[r][p]
                  u == tasks'[r][p]
                  built == create_request_builder(cfg[t.api]).ok
              IN /\ u.pc = "sending" => t.pc = "pending" /\ built
                 /\ u.pc # "pending"
                 /\ t.pc = "pending" =>
                      IF built THEN u.pc = "sending"
                      ELSE u.pc = "done" /\ u.ret = "Err"
                 /\ t.pc = "sending" =>
                      /\ u.pc = "lock_app_state"
                      /\ u.ret = "Err" <=> u.monitoring_data.status = "ERROR"
                 /\ t.pc = "lock_app_state" => u.pc = "lock_table"
                 /\ t.pc = "lock_table" => u.pc = "insert"
                 /\ t.pc = "insert" => u.pc = "done"
      ]_vars

\* a health-check task has returned after its one request failed, its ERROR
\* result written
ReturnedAfterOneFailure ==
    \E r \in Runs : \E p \in DOMAIN tasks[r] :
        /\ tasks[r][p].kind = "Task"
        /\ tasks[r][p].pc = "done"
        /\ tasks[r][p].ret = "Err"
        /\ create_request_builder(cfg[tasks[r][p].api]).ok
        /\ \E e \in app_state.task_monitoring_data :
              e.key = cfg[tasks[r][p].api].url /\ e.value.status = "ERROR"

TableLocks == {"task_monitoring_data", "load_test_monitoring_data"}

\* the task at position p of run r has asked for a lock it does not have yet
AwaitsLock(r, p) ==
    Built(r, p) /\ tasks[r][p].pc \in {"lock_app_state", "lock_table"}

SomeoneAwaitsLock ==
    \/ \E r \in Runs : \E p \in DOMAIN tasks[r] : AwaitsLock(r, p)
    \/ \E h \in Handlers : handlers[h] = "lock_table"

\* a sub-table lock is only ever held by the holder of the store-level lock
StoreLockFirst ==
    \A l \in TableLocks : locks[l] # Free => locks[l] = locks.app_state

\* whoever waits for a lock can take it, or its holder can take a step
NoLockDeadlock ==
    /\ \A r \in Runs : \A p \in DOMAIN tasks[r] :
          AwaitsLock(r, p) =>
              \/ ENABLED (lock_app_state(r, p) \/ lock_table(r, p))
              \/ ENABLED HolderStep
    /\ \A h \in Handlers :
          handlers[h] = "lock_table" => ENABLED handler_lock_table(h)

(***************************************************************************)
(* C23: writers (update_app_state) and readers (get_task_data,             *)
(* get_load_test_data) take the store-level lock first and the sub-table   *)
(* lock second; no state is reachable in which a lock request can never be *)
(* granted; and under fair scheduling every lock request is granted: no    *)
(* task and no reader waits for a lock for ever.                           *)
(***************************************************************************)
LocksOrderedAndGranted ==
    /\ [](StoreLockFirst /\ NoLockDeadlock)
    /\ []<>(~SomeoneAwaitsLock)

\* a writer waits for the store-level lock while a reader holds both locks
WriterWaitsForReader ==
    \E r \in Runs : \E p \in DOMAIN tasks[r] : \E h \in Handlers :
        /\ tasks[r][p].pc = "lock_app_state"
        /\ handlers[h] = "respond"
        /\ locks.app_state = << 0, h >>
        /\ locks[HandlerTable(h)] = << 0, h >>

\* the keys of the groups the loop of run r has still to await, the current
\* one included
KeysAhead(r) == { runs[r].order_keys[i] : i \in DOMAIN runs[r].order_keys }

GroupsArePartition ==
    \A r \in Runs :
        LET groups == grouped_tasks(cfg, tasks[r])
        IN /\ UNION { groups[k] : k \in DOMAIN groups } = DOMAIN tasks[r]
           /\ \A k \in DOMAIN groups : groups[k] # {}
           /\ \A j, k \in DOMAIN groups : j # k => groups[j] \cap groups[k] = {}
           /\ KeysAhead(r) \subseteq DOMAIN groups
           /\ \A i, j \in DOMAIN runs[r].order_keys :
                 i < j => runs[r].order_keys[i] < runs[r].order_keys[j]
           /\ \A k \in DOMAIN groups : \A p \in groups[k] :
                 \/ k \in KeysAhead(r)
                 \/ tasks[r][p].pc = "joined"
           /\ runs[r].pc = "done" =>
                 \A p \in DOMAIN tasks[r] : tasks[r][p].pc = "joined"

(***************************************************************************)
(* C24: the groups of start_monitoring are a partition of the tasks        *)
(* create_monitor_tasks returned: every task is in exactly one group, no   *)
(* group is empty; and within a run execute is invoked exactly once for    *)
(* each task: a task is started only as a member of the group being        *)
(* awaited, never started again, and the run does not end before every     *)
(* task has been executed and joined.                                      *)
(***************************************************************************)
EveryTaskExecutedOnce ==
    /\ []GroupsArePartition
    /\ [][ \A r \in Runs :
             /\ tasks[r] # << >> =>
                   /\ DOMAIN tasks'[r] = DOMAIN tasks[r]
                   /\ \A p \in DOMAIN tasks[r] :
                         /\ tasks'[r][p].api = tasks[r][p].api
                         /\ tasks'[r][p].kind = tasks[r][p].kind
                         /\ tasks'[r][p].pc = "pending" => tasks[r][p].pc = "pending"
                         /\ (tasks[r][p].pc = "pending" /\ tasks'[r][p].pc # "pending")
                               => p \in CurrentGroup(r)
             /\ tasks[r] = << >> =>
                   /\ \A p \in DOMAIN tasks'[r] : tasks'[r][p].pc = "pending"
                   /\ tasks'[r] # << >> => tasks'[r] = create_monitor_tasks(cfg)
         ]_vars

\* a run has ended with two tasks of one group executed and joined
GroupOfTwoExecuted ==
    \E r \in Runs : \E k \in DOMAIN grouped_tasks(cfg, tasks[r]) :
        /\ runs[r].pc = "done"
        /\ Cardinality(grouped_tasks(cfg, tasks[r])[k]) = 2
        /\ \A p \in DOMAIN tasks[r] : tasks[r][p].pc = "joined"

====
